---- MODULE Spec2Model ----
(***************************************************************************)
(* State-machine model of the hackrfone crate (src/src/lib.rs): the        *)
(* HackRfOne<MODE> session, its typestate, the vendor control requests it  *)
(* issues and the firmware version gate.                                   *)
(*                                                                         *)
(* One action per public method.  The impl block a method lives in gives   *)
(* the action's guard on the mode tag: `impl HackRfOne<UnknownMode>` (new),*)
(* `impl<MODE> HackRfOne<MODE>` (any live session) and                     *)
(* `impl HackRfOne<RxMode>` (rx, stop_rx).  A method taking `self` by      *)
(* value consumes the session: it is gone unless the method returns a new  *)
(* one.  The USB transport (nusb) is the environment: every transfer       *)
(* either completes or fails, and a control-in returns any number of bytes.*)
(*                                                                         *)
(* The pure functions (from_bcd, freq_params, iq_to_cplx_*, the version    *)
(* gate) have specifications of their own, and so has the two-thread       *)
(* streaming program of examples/rx.rs.                                    *)
(***************************************************************************)
EXTENDS Integers, Sequences, FiniteSets, TLC

VARIABLES
    mode,        \* mode tag of the live session, or NoSession
    dh,          \* HackRfOne.dh: the opened device (index in the device list)
    interface,   \* HackRfOne.interface: <<device, interface number>>
    desc,        \* HackRfOne.desc: bcdDevice of the cached device descriptor
    timeout,     \* HackRfOne.timeout, in milliseconds
    call,        \* the last API call: [op, from, desc (tag and descriptor it was called on), arg]
    res,         \* what the last API call returned
    xfers,       \* the transfers the last API call issued, in order
    lastModeCmd, \* last mode-affecting command the device accepted on this connection
    cycles,      \* completed UnknownMode -> RxMode -> UnknownMode round trips
    mainPc,      \* examples/rx.rs: where the main thread is
    samplePc,    \* examples/rx.rs: where the sample thread is
    samples,     \* examples/rx.rs: the buffer the sample thread got from rx()
    data_chan,   \* examples/rx.rs: buffers sent on data_tx and not yet received
    exit_chan,   \* examples/rx.rs: exit events sent on exit_tx and not yet received
    capture_len, \* examples/rx.rs: capture_buf.len()
    threadResult,\* examples/rx.rs: what the sample thread's closure returned
    rxAfterExit  \* rx() calls the sample thread started while an exit event was waiting

vars == <<mode, dh, interface, desc, timeout, call, res, xfers, lastModeCmd, cycles,
          mainPc, samplePc, samples, data_chan, exit_chan, capture_len, threadResult,
          rxAfterExit>>

\* the state of the example program
example == <<mainPc, samplePc, samples, data_chan, exit_chan, capture_len, threadResult,
             rxAfterExit>>

session == <<dh, interface, desc, timeout>>

----------------------------------------------------------------------------
(* Bounds of the model *)

\* number of devices new() may find on the bus
MaxDevices == 2
\* the round-trip counter saturates here
MaxCycles == 2
\* longest answer a 1-byte control-in may get from the transport
MaxCtrlInLen == 2
\* longest answer the 16-byte control-in of version() may get
MaxVersionAnswer == 17
\* longest chunk one bulk read returns
MaxRxLen == 2
\* examples/rx.rs: NUM_SAMPLES (1024 * 1024) scaled down: samples the capture
\* buffer takes before the main thread leaves its loop
MaxSamples == 2
\* examples/rx.rs: buffers the sample thread may have waiting on the data
\* channel while no exit event has been sent
MaxQueued == 1

----------------------------------------------------------------------------
(* Program constants *)

HACKRF_USB_VID == 7504      \* 0x1D50
HACKRF_ONE_USB_PID == 24713 \* 0x6089

\* enum Request
SetTransceiverMode == 1
SampleRateSet == 6
BasebandFilterBandwidthSet == 7
BoardIdRead == 14
VersionStringRead == 15
SetFreq == 16
AmpEnable == 17
SetLnaGain == 19
SetVgaGain == 20
SetTxvgaGain == 21
AntennaEnable == 23
Reset == 30
ClkoutEnable == 32

\* enum TransceiverMode
Off == 0
Receive == 1

\* typestate tags; NoSession: no HackRfOne value is alive
UnknownMode == "UnknownMode"
RxMode == "RxMode"
NoSession == "NoSession"

\* Duration::from_secs(1), in milliseconds
DefaultTimeout == 1000

\* rx(): const ENDPOINT, const MTU
ENDPOINT == 129
MTU == 131072

\* version(): ControlIn length
VersionStringLen == 16

----------------------------------------------------------------------------
(* Unsigned fixed-width arithmetic *)

Pow2(n) == 2 ^ n

RECURSIVE BitOr(_, _)
BitOr(a, b) ==
    IF a = 0 THEN b
    ELSE IF b = 0 THEN a
    ELSE (IF (a % 2 = 1) \/ (b % 2 = 1) THEN 1 ELSE 0) + 2 * BitOr(a \div 2, b \div 2)

RECURSIVE BitAnd(_, _)
BitAnd(a, b) ==
    IF a = 0 \/ b = 0 THEN 0
    ELSE (IF (a % 2 = 1) /\ (b % 2 = 1) THEN 1 ELSE 0) + 2 * BitAnd(a \div 2, b \div 2)

Shr(a, n) == a \div Pow2(n)

\* a << n on a u32 whose shifted value stays below 2^31 in every use here
Shl(a, n) == a * Pow2(n)

\* !m on a u16
NotU16(m) == 65535 - m

\* bool.into() / u8.into() for a u16 request value
BoolToU16(b) == IF b THEN 1 ELSE 0

----------------------------------------------------------------------------
(* u32 and u64 values too wide for the checker's integers are kept as their *)
(* base-256 digits, least significant first: x = <<d0, d1, ...>> stands for *)
(* d0 + 256*d1 + ...; (x >> 8*i) & 0xFF is x[i+1].                          *)

RECURSIVE Digits(_, _)
Digits(n, len) ==
    IF len = 0 THEN <<>> ELSE <<n % 256>> \o Digits(n \div 256, len - 1)

U32(n) == Digits(n, 4)
U64(n) == Digits(n, 8)
U32_MAX == <<255, 255, 255, 255>>
U64_MAX == <<255, 255, 255, 255, 255, 255, 255, 255>>

\* the target is little-endian: to_le() leaves the value alone
TargetBigEndian == FALSE

RECURSIVE Reverse(_)
Reverse(q) == IF q = <<>> THEN <<>> ELSE Append(Reverse(Tail(q)), Head(q))

to_le(x) == IF TargetBigEndian THEN Reverse(x) ELSE x

IsZero(x) == \A i \in 1..Len(x) : x[i] = 0

\* x / d and x % d for d small enough that 256*d fits; digits from the top
RECURSIVE BigDivRem(_, _, _, _)
BigDivRem(x, d, i, acc) ==
    IF i = 0 THEN acc
    ELSE LET cur == acc.rem * 256 + x[i]
         IN  BigDivRem(x, d, i - 1,
                       [quot |-> <<cur \div d>> \o acc.quot, rem |-> cur % d])

BigDiv(x, d) == BigDivRem(x, d, Len(x), [quot |-> <<>>, rem |-> 0]).quot

\* x * k on len digits, wrapping
RECURSIVE BigMul(_, _, _, _)
BigMul(x, k, i, carry) ==
    IF i > Len(x) THEN <<>>
    ELSE LET cur == x[i] * k + carry
         IN  <<cur % 256>> \o BigMul(x, k, i + 1, cur \div 256)

\* x - y on Len(x) digits; borrow tells that y > x (the subtraction overflowed)
RECURSIVE BigSub(_, _, _, _)
BigSub(x, y, i, borrow) ==
    IF i > Len(x) THEN [digits |-> <<>>, borrow |-> borrow]
    ELSE LET cur == x[i] - y[i] - borrow
             rest == BigSub(x, y, i + 1, IF cur < 0 THEN 1 ELSE 0)
         IN  [digits |-> <<cur % 256>> \o rest.digits, borrow |-> rest.borrow]

\* the conversion cutting the value to its low 32 bits instead of saturating
try_from_u64_wrapping(x) == SubSeq(x, 1, 4)

\* u32::try_from(x: u64).unwrap_or(u32::MAX)
try_from_u64(x) == IF IsZero(SubSeq(x, 5, 8)) THEN SubSeq(x, 1, 4) ELSE U32_MAX

\* u64::from(x: u32)
u64_from(x) == x \o <<0, 0, 0, 0>>

\* freq_params: whole MHz and the remaining Hz, each saturated to a u32, as
\* 8 bytes; the subtraction panics (debug build) or wraps when it overflows
MHZ == 1000000

freq_params(hz) ==
    LET l_freq_mhz == to_le(try_from_u64(BigDiv(hz, MHZ)))
        diff == BigSub(hz, BigMul(u64_from(l_freq_mhz), MHZ, 1, 0), 1, 0)
        l_freq_hz == to_le(try_from_u64(diff.digits))
    IN  [overflow |-> diff.borrow = 1,
         bytes |-> <<l_freq_mhz[1], l_freq_mhz[2], l_freq_mhz[3], l_freq_mhz[4],
                     l_freq_hz[1], l_freq_hz[2], l_freq_hz[3], l_freq_hz[4]>>]

----------------------------------------------------------------------------
(* f32: a finite value is m * 2^e with m = 0 or 2^23 <= m < 2^24; inf, nan. *)
(* Rounding is to nearest, ties to even.  All values here are non-negative. *)

F32Zero == [cls |-> "num", m |-> 0, e |-> 0]
F32Inf == [cls |-> "inf", m |-> 0, e |-> 0]
F32NaN == [cls |-> "nan", m |-> 0, e |-> 0]

RECURSIVE DropBits(_)
DropBits(n) == IF n < Pow2(24) THEN 0 ELSE 1 + DropBits(n \div 2)

RECURSIVE UpBits(_)
UpBits(n) == IF n >= Pow2(23) THEN 0 ELSE 1 + UpBits(2 * n)

\* the f32 nearest to (n + s) * 2^e, where 0 <= s < 1 and sticky tells s > 0
F32Round(n, sticky, e) ==
    IF n = 0 THEN F32Zero
    ELSE IF n < Pow2(23)
    THEN [cls |-> "num", m |-> n * Pow2(UpBits(n)), e |-> e - UpBits(n)]
    ELSE LET k == DropBits(n)
             q == n \div Pow2(k)
             r == n % Pow2(k)
             half == IF k = 0 THEN 0 ELSE Pow2(k - 1)
             up == /\ k > 0
                   /\ \/ r > half
                      \/ r = half /\ (sticky \/ q % 2 = 1)
             q1 == IF up THEN q + 1 ELSE q
         IN  IF q1 = Pow2(24)
             THEN [cls |-> "num", m |-> Pow2(23), e |-> e + k + 1]
             ELSE [cls |-> "num", m |-> q1, e |-> e + k]

\* x as f32, for a u32 x
u32_as_f32(x) ==
    LET hi == x[4] * 256 + x[3]
        lo == x[2] * 256 + x[1]
    IN  IF hi < 32768 THEN F32Round(hi * 65536 + lo, FALSE, 0)
        ELSE F32Round(hi * 32768 + lo \div 2, lo % 2 = 1, 1)

\* 0.75 * f: 0.75 is 3 * 2^-2
f32_mul_075(f) == F32Round(3 * f.m, FALSE, f.e - 2)

\* bits more quotient bits of rem / d, for rem < d
RECURSIVE LongDiv(_, _, _, _)
LongDiv(rem, d, bits, q) ==
    IF bits = 0 THEN [q |-> q, rem |-> rem]
    ELSE IF 2 * rem >= d THEN LongDiv(2 * rem - d, d, bits - 1, 2 * q + 1)
    ELSE LongDiv(2 * rem, d, bits - 1, 2 * q)

\* a / b
f32_div(a, b) ==
    IF b.m = 0 THEN (IF a.m = 0 THEN F32NaN ELSE F32Inf)
    ELSE IF a.m = 0 THEN F32Zero
    ELSE LET d == LongDiv(a.m % b.m, b.m, 25, a.m \div b.m)
         IN  F32Round(d.q, d.rem # 0, a.e - b.e - 25)

\* f as u32: truncates, saturates, NaN gives 0
f32_as_u32(f) ==
    IF f.cls = "nan" THEN U32(0)
    ELSE IF f.cls = "inf" THEN U32_MAX
    ELSE IF f.m = 0 THEN U32(0)
    ELSE IF f.e >= 9 THEN U32_MAX
    ELSE IF f.e >= 0
    THEN LET hi == f.m \div Pow2(16 - f.e)
             lo == (f.m % Pow2(16 - f.e)) * Pow2(f.e)
         IN  <<lo % 256, lo \div 256, hi % 256, hi \div 256>>
    ELSE IF f.e <= -24 THEN U32(0)
    ELSE U32(f.m \div Pow2(0 - f.e))

----------------------------------------------------------------------------
(* IQ samples: a byte is a two's-complement i8, bit 7 weighing -128 *)

\* the byte kept as the unsigned number it was
u8_as_i8_unsigned(b) == b

\* b as i8
u8_as_i8(b) == (b % 128) - 128 * (b \div 128)

\* x as f32, for an i8 x: the sign and the f32 of the magnitude
i8_as_f32(x) ==
    [neg |-> x < 0, abs |-> F32Round(IF x < 0 THEN 0 - x ELSE x, FALSE, 0)]

\* iq_to_cplx_i8: Complex::new(i as i8, q as i8)
iq_to_cplx_i8(i, q) == [re |-> u8_as_i8(i), im |-> u8_as_i8(q)]

\* iq_to_cplx_f32: Complex::new(i as i8 as f32, q as i8 as f32)
iq_to_cplx_f32(i, q) ==
    [re |-> i8_as_f32(u8_as_i8(i)), im |-> i8_as_f32(u8_as_i8(q))]

----------------------------------------------------------------------------
(* Version codec *)

NoVersion == [major |-> -1, minor |-> -1, sub_minor |-> -1]

\* the major digits read as hexadecimal instead of decimal
from_bcd_hex(raw) ==
    LET major0 == Shr(BitAnd(raw, 61440), 12) % 256
        major1 == Shr(BitAnd(raw, 3840), 8) % 256
        minor == Shr(BitAnd(raw, 240), 4) % 256
        sub_minor == BitAnd(raw, 15) % 256
    IN  [major |-> ((major0 * 16) + major1) % 256,
         minor |-> minor,
         sub_minor |-> sub_minor]

\* Version::from_bcd: 0xJJMN, JJ major (two BCD digits), M minor, N sub-minor
from_bcd(raw) ==
    LET major0 == Shr(BitAnd(raw, 61440), 12) % 256
        major1 == Shr(BitAnd(raw, 3840), 8) % 256
        minor == Shr(BitAnd(raw, 240), 4) % 256
        sub_minor == BitAnd(raw, 15) % 256
    IN  [major |-> ((major0 * 10) + major1) % 256,
         minor |-> minor,
         sub_minor |-> sub_minor]

\* the composite key with the minor field shifted by a nibble instead of a byte
version_to_u32_nibble(v) ==
    BitOr(BitOr(Shl(v.major, 16), Shl(v.minor, 4)), v.sub_minor)

\* check_api_version::version_to_u32
version_to_u32(v) ==
    BitOr(BitOr(Shl(v.major, 16), Shl(v.minor, 8)), v.sub_minor)

\* the minimum versions the gated calls ask for
ClkoutMinBcd == 259   \* 0x0103
ResetMinBcd == 258    \* 0x0102

----------------------------------------------------------------------------
(* Results: Ok / Some / None, one of the Error variants, or a panic *)

Result(kind) ==
    [kind |-> kind, device |-> NoVersion, min |-> NoVersion,
     dir |-> "", actual |-> 0, expected |-> 0, val |-> <<>>]

Ok == Result("Ok")
OkVal(v) == [Result("Ok") EXCEPT !.val = v]
ErrUsb == Result("Usb")
ErrUsbTransfer == Result("UsbTransfer")
ErrIO == Result("IO")
ErrArgument == Result("Argument")
ErrCtrlTransfer(dir, actual, expected) ==
    [Result("CtrlTransfer") EXCEPT !.dir = dir, !.actual = actual, !.expected = expected]
ErrVersion(device, min) ==
    [Result("Version") EXCEPT !.device = device, !.min = min]
Panic == Result("Panic")

IsErr(r) == r.kind \in {"Usb", "UsbTransfer", "IO", "CtrlTransfer", "Version", "Argument"}

----------------------------------------------------------------------------
(* Transfers on the wire *)

\* rx() hands no timeout to the bulk reader
NoTimeout == -1

ControlInXfer(request, value, index, length, t, ok, got) ==
    [kind |-> "control_in", request |-> request, value |-> value, index |-> index,
     data |-> <<>>, length |-> length, timeout |-> t, ok |-> ok, got |-> got]

ControlOutXfer(request, value, index, buf, t, ok) ==
    [kind |-> "control_out", request |-> request, value |-> value, index |-> index,
     data |-> buf, length |-> Len(buf), timeout |-> t, ok |-> ok, got |-> <<>>]

BulkInXfer(endpoint, length, ok, got) ==
    [kind |-> "bulk_in", request |-> endpoint, value |-> 0, index |-> 0,
     data |-> <<>>, length |-> length, timeout |-> NoTimeout, ok |-> ok, got |-> got]

\* read_control taking the first N bytes of a longer answer
read_control_truncating(N, request, value, index, t, in) ==
    LET x == ControlInXfer(request, value, index, N, t, in.ok,
                           IF in.ok THEN in.bytes ELSE <<>>)
    IN  IF ~in.ok THEN [r |-> ErrUsbTransfer, xs |-> <<x>>]
        ELSE IF N <= Len(in.bytes) THEN [r |-> OkVal(SubSeq(in.bytes, 1, N)), xs |-> <<x>>]
        ELSE [r |-> ErrCtrlTransfer("In", Len(in.bytes), N), xs |-> <<x>>]

\* read_control::<N>: one control-in of length N; the answer must be N bytes long.
\* in = [ok, bytes]: what the transport does with the transfer.
read_control(N, request, value, index, t, in) ==
    LET x == ControlInXfer(request, value, index, N, t, in.ok,
                           IF in.ok THEN in.bytes ELSE <<>>)
    IN  IF ~in.ok THEN [r |-> ErrUsbTransfer, xs |-> <<x>>]
        ELSE IF N = Len(in.bytes) THEN [r |-> OkVal(in.bytes), xs |-> <<x>>]
        ELSE [r |-> ErrCtrlTransfer("In", Len(in.bytes), N), xs |-> <<x>>]

\* write_control submitting the transfer a second time when it failed
write_control_retry(request, value, index, buf, t, out) ==
    LET x == ControlOutXfer(request, value, index, buf, t, out)
    IN  IF ~out THEN [r |-> ErrUsbTransfer, xs |-> <<x, x>>]
        ELSE [r |-> Ok, xs |-> <<x>>]

\* write_control: one control-out; out: whether the transport completed it.
write_control(request, value, index, buf, t, out) ==
    LET x == ControlOutXfer(request, value, index, buf, t, out)
    IN  IF ~out THEN [r |-> ErrUsbTransfer, xs |-> <<x>>]
        ELSE [r |-> Ok, xs |-> <<x>>]

\* the gate with a strict comparison: the minimum itself is refused
check_api_version_strict(d, min) ==
    LET v == from_bcd(d)
        v_cmp == version_to_u32(v)
        min_cmp == version_to_u32(min)
    IN  IF v_cmp > min_cmp THEN Ok ELSE ErrVersion(v, min)

\* check_api_version: compare the descriptor's version with the minimum
check_api_version(d, min) ==
    LET v == from_bcd(d)
        v_cmp == version_to_u32(v)
        min_cmp == version_to_u32(min)
    IN  IF v_cmp >= min_cmp THEN Ok ELSE ErrVersion(v, min)

\* the mode sent in the index field instead of the value field
set_transceiver_mode_in_index(m, t, out) ==
    write_control(SetTransceiverMode, 0, m, <<>>, t, out)

\* set_transceiver_mode
set_transceiver_mode(m, t, out) ==
    write_control(SetTransceiverMode, m, 0, <<>>, t, out)

----------------------------------------------------------------------------
(* What the device was last told about its mode: the last completed          *)
(* SetTransceiverMode or Reset control-out among the transfers of a call.    *)

ModeCmd(x) ==
    IF x.request = Reset THEN "Reset"
    ELSE IF x.value = Receive THEN "Receive"
    ELSE IF x.value = Off THEN "Off"
    ELSE "Other"

IsModeCmd(x) ==
    /\ x.kind = "control_out"
    /\ x.ok
    /\ x.request \in {SetTransceiverMode, Reset}

RECURSIVE ModeAfter(_, _)
ModeAfter(last, xs) ==
    IF xs = <<>> THEN last
    ELSE ModeAfter(IF IsModeCmd(Head(xs)) THEN ModeCmd(Head(xs)) ELSE last, Tail(xs))

----------------------------------------------------------------------------
(* Inputs: arguments of the calls and answers of the transport *)

TimeoutSet == {100, 1000}

\* bcdDevice values 0x0101, 0x0102, 0x0103, 0x0119: 1.0.1, 1.0.2, 1.0.3, 1.1.9
BcdSet == {257, 258, 259, 281}

ByteSet == {0, 255}

GainSet == {9, 47, 63}

\* center frequencies (u64) for set_freq
FreqSet == {U64(915000001), U64_MAX}

\* sample rates, divisors and bandwidths (u32)
HzSet == {U32(16777219), U32(20000000)}
DivSet == {U32(0), U32(2)}
BwSet == {U32(7000000), U32_MAX}

\* bytes of a firmware version string: '2' and a byte that is not UTF-8
VersionByteSet == {50, 255}

RECURSIVE SeqsUpTo(_, _)
SeqsUpTo(S, n) ==
    IF n = 0 THEN {<<>>}
    ELSE LET shorter == SeqsUpTo(S, n - 1)
         IN  shorter \cup {Append(q, b) : q \in shorter, b \in S}

\* what a control-in asking for one byte may get
CtrlInAnswers ==
    {[ok |-> FALSE, bytes |-> <<>>]}
        \cup {[ok |-> TRUE, bytes |-> [i \in 1..n |-> b]] :
                n \in 0..MaxCtrlInLen, b \in ByteSet}

\* what the control-in of version() may get: up to MaxVersionAnswer bytes
VersionAnswers ==
    {[ok |-> FALSE, bytes |-> <<>>]}
        \cup {[ok |-> TRUE, bytes |-> [i \in 1..n |-> b]] :
                n \in {0} \cup ((VersionStringLen - 1)..MaxVersionAnswer),
                b \in VersionByteSet}

\* what the bulk reader of rx() may get: up to MaxRxLen bytes
RxAnswers == SeqsUpTo(ByteSet, MaxRxLen)

\* a device on the bus, as new() sees it: a HackRF One that may or may not
\* open and let its interface be claimed, or a device with another vendor or
\* product id (never opened, so open and claim do not matter)
DeviceInfos ==
    [vendor_id : {HACKRF_USB_VID}, product_id : {HACKRF_ONE_USB_PID},
     open : BOOLEAN, claim : BOOLEAN]
        \cup [vendor_id : {HACKRF_USB_VID, 1}, product_id : {HACKRF_ONE_USB_PID, 2},
              open : {TRUE}, claim : {TRUE}]

DeviceLists == UNION {[1..n -> DeviceInfos] : n \in 0..MaxDevices}

----------------------------------------------------------------------------
(* What every call leaves behind: the call, its result, its transfers *)

\* the example program is not running
NoExample ==
    /\ mainPc = "none"
    /\ samplePc = "none"
    /\ samples = <<>>
    /\ data_chan = <<>>
    /\ exit_chan = <<>>
    /\ capture_len = 0
    /\ threadResult = "none"
    /\ rxAfterExit = 0

Recorded(op, arg, r, xs) ==
    /\ call' = [op |-> op, from |-> mode, desc |-> desc, arg |-> arg]
    /\ res' = r
    /\ xfers' = xs
    /\ lastModeCmd' = ModeAfter(lastModeCmd, xs)

\* a call made on its own, outside the example program
Returns(op, arg, r, xs) ==
    /\ Recorded(op, arg, r, xs)
    /\ UNCHANGED example

\* a method on &self / &mut self that leaves the fields alone
Borrowed == UNCHANGED <<mode, dh, interface, desc, timeout, cycles>>

\* a transition that builds the returned session with a fresh timeout
Consumed_fresh_timeout(r, tag) ==
    IF r.kind = "Ok"
    THEN /\ mode' = tag
         /\ timeout' = DefaultTimeout
         /\ UNCHANGED <<dh, interface, desc>>
    ELSE /\ mode' = NoSession
         /\ dh' = 0
         /\ interface' = <<0, 0>>
         /\ desc' = 0
         /\ timeout' = 0

\* a transition that hands the session back untouched when its command fails
Consumed_kept_on_error(r, tag) ==
    IF r.kind = "Ok"
    THEN /\ mode' = tag
         /\ UNCHANGED <<dh, interface, desc, timeout>>
    ELSE UNCHANGED <<mode, dh, interface, desc, timeout>>

\* a method on self: the session is moved in; on success its fields are moved
\* into the session returned with the new tag, otherwise it is dropped
Consumed(r, tag) ==
    IF r.kind = "Ok"
    THEN /\ mode' = tag
         /\ UNCHANGED <<dh, interface, desc, timeout>>
    ELSE /\ mode' = NoSession
         /\ dh' = 0
         /\ interface' = <<0, 0>>
         /\ desc' = 0
         /\ timeout' = 0

Alive == mode \in {UnknownMode, RxMode}

----------------------------------------------------------------------------
(* impl HackRfOne<UnknownMode> *)

\* the scan of new(): the first device with the right ids that opens; None
\* when its interface 0 cannot be claimed.  bcd is the bcdDevice in the
\* descriptor of the handle that was opened.
RECURSIVE new_scan(_, _)
new_scan(devices, i) ==
    IF i > Len(devices) THEN 0
    ELSE LET device == devices[i]
         IN  IF device.vendor_id = HACKRF_USB_VID /\ device.product_id = HACKRF_ONE_USB_PID
             THEN IF device.open
                  THEN (IF device.claim THEN i ELSE 0)
                  ELSE new_scan(devices, i + 1)
             ELSE new_scan(devices, i + 1)

new ==
    /\ mode = NoSession
    /\ UNCHANGED example
    /\ \E listed \in BOOLEAN, devices \in DeviceLists, bcd \in BcdSet :
        LET found == IF listed THEN new_scan(devices, 1) ELSE 0
        IN  /\ IF found = 0
               THEN /\ UNCHANGED <<mode, dh, interface, desc, timeout, cycles>>
                    /\ Recorded("new", <<>>, Result("None"), <<>>)
               ELSE /\ mode' = UnknownMode
                    /\ dh' = found
                    /\ interface' = <<found, 0>>
                    /\ desc' = bcd
                    /\ timeout' = DefaultTimeout
                    /\ cycles' = 0
                    /\ call' = [op |-> "new", from |-> mode, desc |-> desc, arg |-> <<>>]
                    /\ res' = Result("Some")
                    /\ xfers' = <<>>
                    /\ lastModeCmd' = "none"

----------------------------------------------------------------------------
(* impl<MODE> HackRfOne<MODE>: callable on a session of either tag *)

\* device_version asking the device instead of reading the cached descriptor
device_version_asks_device ==
    /\ Alive
    /\ Borrowed
    /\ \E in \in CtrlInAnswers :
        LET v == from_bcd(desc)
            data == read_control(1, BoardIdRead, 0, 0, timeout, in)
        IN  Returns("device_version", <<>>, OkVal(<<v.major, v.minor, v.sub_minor>>), data.xs)

device_version ==
    /\ Alive
    /\ Borrowed
    /\ LET v == from_bcd(desc)
       IN  Returns("device_version", <<>>, OkVal(<<v.major, v.minor, v.sub_minor>>), <<>>)

set_timeout ==
    /\ Alive
    /\ \E duration \in TimeoutSet :
        /\ timeout' = duration
        /\ UNCHANGED <<mode, dh, interface, desc, cycles>>
        /\ Returns("set_timeout", <<duration>>, Ok, <<>>)

board_id ==
    /\ Alive
    /\ Borrowed
    /\ \E in \in CtrlInAnswers :
        LET data == read_control(1, BoardIdRead, 0, 0, timeout, in)
        IN  Returns("board_id", <<>>,
                    IF data.r.kind = "Ok" THEN OkVal(<<data.r.val[1]>>) ELSE data.r,
                    data.xs)

set_amp_enable ==
    /\ Alive
    /\ Borrowed
    /\ \E en \in BOOLEAN, out \in BOOLEAN :
        LET w == write_control(AmpEnable, BoolToU16(en), 0, <<>>, timeout, out)
        IN  Returns("set_amp_enable", <<BoolToU16(en)>>, w.r, w.xs)

set_antenna_enable ==
    /\ Alive
    /\ Borrowed
    /\ \E value \in ByteSet, out \in BOOLEAN :
        LET w == write_control(AntennaEnable, value, 0, <<>>, timeout, out)
        IN  Returns("set_antenna_enable", <<value>>, w.r, w.xs)

\* the range check refusing the maximum itself
set_gain_max_refused(request, max, gain, index, t, in) ==
    IF gain >= max THEN [r |-> ErrArgument, xs |-> <<>>]
    ELSE LET buf == read_control(1, request, 0, index, t, in)
         IN  IF buf.r.kind # "Ok" THEN buf
             ELSE IF buf.r.val[1] = 0 THEN [r |-> ErrArgument, xs |-> buf.xs]
             ELSE [r |-> Ok, xs |-> buf.xs]

\* the body the three gain setters share: range check, the gain (index, as
\* the setter masked it) in the index field, one status byte back, 0 meaning
\* the device refused
set_gain(request, max, gain, index, t, in) ==
    IF gain > max THEN [r |-> ErrArgument, xs |-> <<>>]
    ELSE LET buf == read_control(1, request, 0, index, t, in)
         IN  IF buf.r.kind # "Ok" THEN buf
             ELSE IF buf.r.val[1] = 0 THEN [r |-> ErrArgument, xs |-> buf.xs]
             ELSE [r |-> Ok, xs |-> buf.xs]

\* the LNA gain masked to a step of 4 dB
lna_gain_step_4(gain, t, in) ==
    set_gain(SetLnaGain, 40, gain, BitAnd(gain, NotU16(3)), t, in)

\* set_lna_gain: at most 40, gain & !0x07 on the wire
lna_gain(gain, t, in) ==
    set_gain(SetLnaGain, 40, gain, BitAnd(gain, NotU16(7)), t, in)

\* set_vga_gain: at most 62, gain & !0b1 on the wire
vga_gain(gain, t, in) ==
    set_gain(SetVgaGain, 62, gain, BitAnd(gain, NotU16(1)), t, in)

\* set_txvga_gain: at most 47, the gain as it is on the wire
txvga_gain(gain, t, in) ==
    set_gain(SetTxvgaGain, 47, gain, gain, t, in)

set_lna_gain ==
    /\ Alive
    /\ Borrowed
    /\ \E gain \in GainSet, in \in CtrlInAnswers :
        LET g == lna_gain(gain, timeout, in)
        IN  Returns("set_lna_gain", <<gain>>, g.r, g.xs)

set_vga_gain ==
    /\ Alive
    /\ Borrowed
    /\ \E gain \in GainSet, in \in CtrlInAnswers :
        LET g == vga_gain(gain, timeout, in)
        IN  Returns("set_vga_gain", <<gain>>, g.r, g.xs)

set_txvga_gain ==
    /\ Alive
    /\ Borrowed
    /\ \E gain \in GainSet, in \in CtrlInAnswers :
        LET g == txvga_gain(gain, timeout, in)
        IN  Returns("set_txvga_gain", <<gain>>, g.r, g.xs)

\* the clock-out command sent before the gate is looked at
clkout_enable_gate_last(d, en, t, out) ==
    LET gate == check_api_version(d, from_bcd(ClkoutMinBcd))
        w == write_control(ClkoutEnable, BoolToU16(en), 0, <<>>, t, out)
    IN  IF gate.kind # "Ok" THEN [r |-> gate, xs |-> w.xs] ELSE w

\* set_clkout_enable: the version gate, then one control-out
clkout_enable(d, en, t, out) ==
    LET gate == check_api_version(d, from_bcd(ClkoutMinBcd))
    IN  IF gate.kind # "Ok" THEN [r |-> gate, xs |-> <<>>]
        ELSE write_control(ClkoutEnable, BoolToU16(en), 0, <<>>, t, out)

set_clkout_enable ==
    /\ Alive
    /\ Borrowed
    /\ \E en \in BOOLEAN, out \in BOOLEAN :
        LET c == clkout_enable(desc, en, timeout, out)
        IN  Returns("set_clkout_enable", <<BoolToU16(en)>>, c.r, c.xs)

\* reset: the version gate, then one control-out; the session comes back
\* tagged UnknownMode
reset_device(d, t, out) ==
    LET gate == check_api_version(d, from_bcd(ResetMinBcd))
    IN  IF gate.kind # "Ok" THEN [r |-> gate, xs |-> <<>>]
        ELSE write_control(Reset, 0, 0, <<>>, t, out)

\* reset handing the session back with the tag it came with
reset_keeps_tag ==
    /\ Alive
    /\ \E out \in BOOLEAN :
        LET c == reset_device(desc, timeout, out)
        IN  /\ Consumed(c.r, mode)
            /\ UNCHANGED cycles
            /\ Returns("reset", <<>>, c.r, c.xs)

reset ==
    /\ Alive
    /\ \E out \in BOOLEAN :
        LET c == reset_device(desc, timeout, out)
        IN  /\ Consumed(c.r, UnknownMode)
            /\ UNCHANGED cycles
            /\ Returns("reset", <<>>, c.r, c.xs)

\* into_rx_mode that drops the outcome of its command
into_rx_mode_unchecked ==
    /\ Alive
    /\ \E out \in BOOLEAN :
        LET c == set_transceiver_mode(Receive, timeout, out)
        IN  /\ Consumed(Ok, RxMode)
            /\ UNCHANGED cycles
            /\ Returns("into_rx_mode", <<>>, Ok, c.xs)

into_rx_mode ==
    /\ Alive
    /\ \E out \in BOOLEAN :
        LET c == set_transceiver_mode(Receive, timeout, out)
        IN  /\ Consumed(c.r, RxMode)
            /\ UNCHANGED cycles
            /\ Returns("into_rx_mode", <<>>, c.r, c.xs)

\* String::from_utf8_lossy on bytes of VersionByteSet: ASCII stays, a byte
\* that is not UTF-8 becomes U+FFFD
from_utf8_lossy(bytes) ==
    [i \in 1..Len(bytes) |-> IF bytes[i] < 128 THEN bytes[i] ELSE 65533]

\* version(): its own control-in of 16 bytes, then the slice buf[0..16],
\* which panics when the answer is shorter
version_string(t, in) ==
    LET x == ControlInXfer(VersionStringRead, 0, 0, VersionStringLen, t, in.ok,
                           IF in.ok THEN in.bytes ELSE <<>>)
    IN  IF ~in.ok THEN [r |-> ErrUsbTransfer, xs |-> <<x>>]
        ELSE IF Len(in.bytes) < VersionStringLen THEN [r |-> Panic, xs |-> <<x>>]
        ELSE [r |-> OkVal(from_utf8_lossy(SubSeq(in.bytes, 1, VersionStringLen))),
              xs |-> <<x>>]

version ==
    /\ Alive
    /\ Borrowed
    /\ \E in \in VersionAnswers :
        LET v == version_string(timeout, in)
        IN  Returns("version", <<>>, v.r, v.xs)

set_freq ==
    /\ Alive
    /\ Borrowed
    /\ \E hz \in FreqSet, out \in BOOLEAN :
        LET buf == freq_params(hz)
            w == write_control(SetFreq, 0, 0, buf.bytes, timeout, out)
        IN  Returns("set_freq", hz, IF buf.overflow THEN Panic ELSE w.r,
                    IF buf.overflow THEN <<>> ELSE w.xs)

\* the bandwidth sent under the request code of SetTransceiverMode
baseband_filter_bandwidth_wrong_request(hz, t, out) ==
    write_control(SetTransceiverMode,
                  hz[1] + 256 * hz[2], hz[3] + 256 * hz[4], <<>>, t, out)

\* set_baseband_filter_bandwidth: low half in value, high half in index
baseband_filter_bandwidth(hz, t, out) ==
    write_control(BasebandFilterBandwidthSet,
                  hz[1] + 256 * hz[2], hz[3] + 256 * hz[4], <<>>, t, out)

set_baseband_filter_bandwidth ==
    /\ Alive
    /\ Borrowed
    /\ \E hz \in BwSet, out \in BOOLEAN :
        LET w == baseband_filter_bandwidth(hz, timeout, out)
        IN  Returns("set_baseband_filter_bandwidth", hz, w.r, w.xs)

\* (0.75 * (hz as f32) / (div as f32)) as u32
sample_rate_bandwidth(hz, div) ==
    f32_as_u32(f32_div(f32_mul_075(u32_as_f32(hz)), u32_as_f32(div)))

\* the bandwidth command sent ahead of SampleRateSet
sample_rate_bandwidth_first(hz0, div0, t, out1, out2) ==
    LET hz == to_le(hz0)
        div == to_le(div0)
        buf == <<hz[1], hz[2], hz[3], hz[4], div[1], div[2], div[3], div[4]>>
        w1 == baseband_filter_bandwidth(sample_rate_bandwidth(hz, div), t, out1)
        w2 == write_control(SampleRateSet, 0, 0, buf, t, out2)
    IN  IF w1.r.kind # "Ok" THEN w1
        ELSE [r |-> w2.r, xs |-> w1.xs \o w2.xs]

\* set_sample_rate: SampleRateSet with hz and div as 8 bytes, then, if that
\* went through, the baseband filter bandwidth
sample_rate(hz0, div0, t, out1, out2) ==
    LET hz == to_le(hz0)
        div == to_le(div0)
        buf == <<hz[1], hz[2], hz[3], hz[4], div[1], div[2], div[3], div[4]>>
        w1 == write_control(SampleRateSet, 0, 0, buf, t, out1)
        w2 == baseband_filter_bandwidth(sample_rate_bandwidth(hz, div), t, out2)
    IN  IF w1.r.kind # "Ok" THEN w1
        ELSE [r |-> w2.r, xs |-> w1.xs \o w2.xs]

set_sample_rate ==
    /\ Alive
    /\ Borrowed
    /\ \E hz \in HzSet, div \in DivSet, out \in {<<FALSE, FALSE>>, <<TRUE, FALSE>>, <<TRUE, TRUE>>} :
        LET w == sample_rate(hz, div, timeout, out[1], out[2])
        IN  Returns("set_sample_rate", hz \o div, w.r, w.xs)

----------------------------------------------------------------------------
(* impl HackRfOne<RxMode> *)

\* rx() losing the first byte of what was read
rx_read_drops_first(claimed, readok, got) ==
    LET n == IF Len(got) < MTU THEN Len(got) ELSE MTU
    IN  IF ~claimed THEN [r |-> ErrUsb, xs |-> <<>>]
        ELSE IF ~readok THEN [r |-> ErrIO, xs |-> <<BulkInXfer(ENDPOINT, MTU, FALSE, <<>>)>>]
        ELSE [r |-> OkVal([i \in 1..(IF n = 0 THEN 0 ELSE n - 1) |-> got[i + 1]]),
              xs |-> <<BulkInXfer(ENDPOINT, MTU, TRUE, got)>>]

\* rx(): claim the bulk-in endpoint, read once into a buffer of MTU bytes,
\* cut the buffer to what was read
rx_read(claimed, readok, got) ==
    LET n == IF Len(got) < MTU THEN Len(got) ELSE MTU
    IN  IF ~claimed THEN [r |-> ErrUsb, xs |-> <<>>]
        ELSE IF ~readok THEN [r |-> ErrIO, xs |-> <<BulkInXfer(ENDPOINT, MTU, FALSE, <<>>)>>]
        ELSE [r |-> OkVal([i \in 1..n |-> got[i]]),
              xs |-> <<BulkInXfer(ENDPOINT, MTU, TRUE, got)>>]

rx ==
    /\ mode = RxMode
    /\ Borrowed
    /\ \E claimed \in BOOLEAN, readok \in BOOLEAN, got \in RxAnswers :
        LET b == rx_read(claimed, readok, got)
        IN  Returns("rx", <<>>, b.r, b.xs)

\* stop_rx offered on a session of any tag
stop_rx_any_mode ==
    /\ Alive
    /\ \E out \in BOOLEAN :
        LET c == set_transceiver_mode(Off, timeout, out)
        IN  /\ Consumed(c.r, UnknownMode)
            /\ cycles' = IF c.r.kind = "Ok" /\ cycles < MaxCycles THEN cycles + 1 ELSE cycles
            /\ Returns("stop_rx", <<>>, c.r, c.xs)

stop_rx ==
    /\ mode = RxMode
    /\ \E out \in BOOLEAN :
        LET c == set_transceiver_mode(Off, timeout, out)
        IN  /\ Consumed(c.r, UnknownMode)
            /\ cycles' = IF c.r.kind = "Ok" /\ cycles < MaxCycles THEN cycles + 1 ELSE cycles
            /\ Returns("stop_rx", <<>>, c.r, c.xs)

----------------------------------------------------------------------------
(* The program: no session until new() opens one *)

Init ==
    /\ mode = NoSession
    /\ dh = 0
    /\ interface = <<0, 0>>
    /\ desc = 0
    /\ timeout = 0
    /\ call = [op |-> "none", from |-> NoSession, desc |-> 0, arg |-> <<>>]
    /\ res = Result("None")
    /\ xfers = <<>>
    /\ lastModeCmd = "none"
    /\ cycles = 0
    /\ NoExample

Next ==
    \/ new
    \/ device_version
    \/ set_timeout
    \/ board_id
    \/ version
    \/ set_freq
    \/ set_amp_enable
    \/ set_baseband_filter_bandwidth
    \/ set_sample_rate
    \/ set_lna_gain
    \/ set_vga_gain
    \/ set_txvga_gain
    \/ set_antenna_enable
    \/ set_clkout_enable
    \/ reset
    \/ into_rx_mode
    \/ rx
    \/ stop_rx

Spec == Init /\ [][Next]_vars

----------------------------------------------------------------------------
(* The version gate on its own: check_api_version applied to a descriptor    *)
(* version and a required minimum drawn from bounded sets.                   *)

\* nibbles of the bcdDevice values tried: tens of major, ones of major, minor, sub-minor
GateBcdSet ==
    {j1 * 4096 + j0 * 256 + m * 16 + n : j1 \in {0, 1}, j0 \in {0, 1, 2}, m \in {0, 1, 2, 9}, n \in {0, 9, 15}}

\* fields of the minimum
GateFieldSet == {0, 1, 2, 255}

InitGate ==
    /\ mode = NoSession
    /\ dh = 0
    /\ interface = <<0, 0>>
    /\ timeout = 0
    /\ xfers = <<>>
    /\ lastModeCmd = "none"
    /\ cycles = 0
    /\ NoExample
    /\ res = Result("None")
    /\ \E raw \in GateBcdSet, major \in GateFieldSet, minor \in GateFieldSet, sub_minor \in {0, 9, 255} :
        /\ desc = raw
        /\ call = [op |-> "check_api_version", from |-> NoSession, desc |-> raw,
                   arg |-> <<major, minor, sub_minor>>]

gate ==
    /\ res.kind = "None"
    /\ res' = check_api_version(desc, [major |-> call.arg[1], minor |-> call.arg[2],
                                        sub_minor |-> call.arg[3]])
    /\ UNCHANGED <<mode, dh, interface, desc, timeout, call, xfers, lastModeCmd, cycles>>
    /\ UNCHANGED example

NextGate == gate

SpecGate == InitGate /\ [][NextGate]_vars

----------------------------------------------------------------------------
(* The pure functions on their own: no session, the arguments in call.arg,   *)
(* the value returned in res.                                                *)

NoSessionState ==
    /\ mode = NoSession
    /\ dh = 0
    /\ interface = <<0, 0>>
    /\ desc = 0
    /\ timeout = 0
    /\ xfers = <<>>
    /\ lastModeCmd = "none"
    /\ cycles = 0
    /\ NoExample
    /\ res = Result("None")

Applied(op, arg) == [op |-> op, from |-> NoSession, desc |-> 0, arg |-> arg]

ReturnsValue(r) ==
    /\ res.kind = "None"
    /\ res' = r
    /\ UNCHANGED <<mode, dh, interface, desc, timeout, call, xfers, lastModeCmd, cycles>>
    /\ UNCHANGED example

\* Version::from_bcd on raw values built from these nibbles
BcdNibbleSet == {0, 1, 2, 3, 4, 9, 10, 15}

InitBcd ==
    /\ NoSessionState
    /\ \E j1 \in BcdNibbleSet, j0 \in BcdNibbleSet, m \in BcdNibbleSet, n \in BcdNibbleSet :
        call = Applied("from_bcd", <<j1 * 4096 + j0 * 256 + m * 16 + n>>)

bcd_decode ==
    /\ call.op = "from_bcd"
    /\ LET v == from_bcd(call.arg[1])
       IN  ReturnsValue(OkVal(<<v.major, v.minor, v.sub_minor>>))

NextBcd == bcd_decode

SpecBcd == InitBcd /\ [][NextBcd]_vars

\* freq_params on frequencies below 2^31 Hz written as whole MHz plus a rest,
\* and on 64-bit values written digit by digit (0 and u64::MAX among them)
FreqMhzSet == {0, 1, 123, 915, 2146}
FreqRestSet == {0, 1, 456789, 999999}
FreqDigitSet == {0, 15, 255}

FreqPureSet ==
    {U64(m * MHZ + r) : m \in FreqMhzSet, r \in FreqRestSet}
        \cup {<<d0, 0, 0, d3, d4, 66, d6, d7>> :
                d0 \in FreqDigitSet, d3 \in FreqDigitSet, d4 \in {63, 64, 255},
                d6 \in FreqDigitSet, d7 \in {0, 255}}
        \cup {U64_MAX,
              <<255, 255, 255, 255, 63, 66, 15, 0>>,
              <<0, 0, 0, 0, 64, 66, 15, 0>>}

InitFreq ==
    /\ NoSessionState
    /\ \E hz \in FreqPureSet : call = Applied("freq_params", hz)

freq_encode ==
    /\ call.op = "freq_params"
    /\ LET buf == freq_params(call.arg)
       IN  ReturnsValue(IF buf.overflow THEN Panic ELSE OkVal(buf.bytes))

NextFreq == freq_encode

SpecFreq == InitFreq /\ [][NextFreq]_vars

----------------------------------------------------------------------------
(* The three gain setters on a session that new() has just returned, with   *)
(* gains around each maximum and each step.                                  *)

GainWideSet == {0, 1, 7, 8, 9, 39, 40, 41, 46, 47, 48, 61, 62, 63, 65535}

\* the answers of the transport, a status byte of 1 added
GainAnswers == CtrlInAnswers \cup {[ok |-> TRUE, bytes |-> <<1>>]}

InitOpened ==
    /\ mode = UnknownMode
    /\ dh = 1
    /\ interface = <<1, 0>>
    /\ desc \in BcdSet
    /\ timeout = DefaultTimeout
    /\ call = [op |-> "new", from |-> NoSession, desc |-> 0, arg |-> <<>>]
    /\ res = Result("Some")
    /\ xfers = <<>>
    /\ lastModeCmd = "none"
    /\ cycles = 0
    /\ NoExample

set_lna_gain_wide ==
    /\ Alive
    /\ Borrowed
    /\ \E gain \in GainWideSet, in \in GainAnswers :
        LET g == lna_gain(gain, timeout, in)
        IN  Returns("set_lna_gain", <<gain>>, g.r, g.xs)

set_vga_gain_wide ==
    /\ Alive
    /\ Borrowed
    /\ \E gain \in GainWideSet, in \in GainAnswers :
        LET g == vga_gain(gain, timeout, in)
        IN  Returns("set_vga_gain", <<gain>>, g.r, g.xs)

set_txvga_gain_wide ==
    /\ Alive
    /\ Borrowed
    /\ \E gain \in GainWideSet, in \in GainAnswers :
        LET g == txvga_gain(gain, timeout, in)
        IN  Returns("set_txvga_gain", <<gain>>, g.r, g.xs)

NextGain ==
    \/ set_lna_gain_wide
    \/ set_vga_gain_wide
    \/ set_txvga_gain_wide

SpecGain == InitOpened /\ [][NextGain]_vars

----------------------------------------------------------------------------
(* set_sample_rate on a session that new() has just returned, with rates    *)
(* below and above 2^24 Hz and divisors 0 to 3.                              *)

HzWideSet == {U32(8000000), U32(10000000), U32(16777219), U32(20000000), U32(20000003)}
DivWideSet == {U32(0), U32(1), U32(2), U32(3)}

set_sample_rate_wide ==
    /\ Alive
    /\ Borrowed
    /\ \E hz \in HzWideSet, div \in DivWideSet, out \in {<<FALSE, FALSE>>, <<TRUE, FALSE>>, <<TRUE, TRUE>>} :
        LET w == sample_rate(hz, div, timeout, out[1], out[2])
        IN  Returns("set_sample_rate", hz \o div, w.r, w.xs)

NextRate == set_sample_rate_wide

SpecRate == InitOpened /\ [][NextRate]_vars

\* the two IQ decoders on every byte paired with the bytes of IqByteSet,
\* either way round
IqByteSet == {0, 1, 127, 128, 129, 255}

IqPairs ==
    {<<i, q>> : i \in 0..255, q \in IqByteSet} \cup {<<i, q>> : i \in IqByteSet, q \in 0..255}

InitIq ==
    /\ NoSessionState
    /\ \E op \in {"iq_to_cplx_i8", "iq_to_cplx_f32"}, iq \in IqPairs : call = Applied(op, iq)

cplx_i8 ==
    /\ call.op = "iq_to_cplx_i8"
    /\ LET c == iq_to_cplx_i8(call.arg[1], call.arg[2])
       IN  ReturnsValue(OkVal(<<c.re, c.im>>))

cplx_f32 ==
    /\ call.op = "iq_to_cplx_f32"
    /\ LET c == iq_to_cplx_f32(call.arg[1], call.arg[2])
       IN  ReturnsValue(OkVal(<<c.re, c.im>>))

NextIq ==
    \/ cplx_i8
    \/ cplx_f32

SpecIq == InitIq /\ [][NextIq]_vars

----------------------------------------------------------------------------
(* examples/rx.rs from the moment the sample thread is spawned: the main    *)
(* thread drains the data channel into capture_buf, the sample thread owns  *)
(* the radio (tagged RxMode) and loops rx() / send / try_recv.  The two     *)
(* mpsc channels are unbounded queues; an endpoint is dropped when the      *)
(* thread that owns it ends.  When main() ends, the process ends.           *)

\* what one rx() of the example may read: nothing, half a sample, one sample
ExampleRxAnswers == {<<>>, <<255>>, <<0, 255>>}

\* main() has neither returned nor panicked
ProcessAlive == mainPc \in {"try_recv", "check_full", "send_exit", "join"}

\* data_rx and exit_tx are locals of main()
DataRxAlive == ProcessAlive
ExitTxAlive == ProcessAlive

\* data_tx and exit_rx are captured by the sample thread's closure and dropped,
\* one after the other, when it returns
DataTxAlive == samplePc \notin {"dropped_data_tx", "done"}
ExitRxAlive == samplePc \notin {"dropped_exit_rx", "done"}

InitExample ==
    /\ mode = RxMode
    /\ dh = 1
    /\ interface = <<1, 0>>
    /\ desc \in BcdSet
    /\ timeout = DefaultTimeout
    /\ call = [op |-> "into_rx_mode", from |-> UnknownMode, desc |-> desc, arg |-> <<>>]
    /\ res = Ok
    /\ xfers = set_transceiver_mode(Receive, DefaultTimeout, TRUE).xs
    /\ lastModeCmd = "Receive"
    /\ cycles = 0
    /\ mainPc = "try_recv"
    /\ samplePc = "rx"
    /\ samples = <<>>
    /\ data_chan = <<>>
    /\ exit_chan = <<>>
    /\ capture_len = 0
    /\ threadResult = "running"
    /\ rxAfterExit = 0

\* line 42, radio.rx() entered: the bulk read is in flight
sample_rx_start ==
    /\ ProcessAlive
    /\ samplePc = "rx"
    /\ Len(data_chan) < MaxQueued \/ exit_chan # <<>>
    /\ samplePc' = "in_rx"
    /\ rxAfterExit' = IF exit_chan # <<>> /\ rxAfterExit < 2 THEN rxAfterExit + 1
                      ELSE rxAfterExit
    /\ UNCHANGED <<mode, dh, interface, desc, timeout, call, res, xfers, lastModeCmd, cycles>>
    /\ UNCHANGED <<mainPc, samples, data_chan, exit_chan, capture_len, threadResult>>

\* line 42, radio.rx()? returns: the buffer, or the closure returns the error
sample_rx_return ==
    /\ ProcessAlive
    /\ samplePc = "in_rx"
    /\ mode = RxMode
    /\ Borrowed
    /\ \E claimed \in BOOLEAN, readok \in BOOLEAN, got \in ExampleRxAnswers :
        LET b == rx_read(claimed, readok, got)
        IN  /\ Recorded("rx", <<>>, b.r, b.xs)
            /\ IF b.r.kind = "Ok"
               THEN /\ samples' = b.r.val
                    /\ samplePc' = "send"
                    /\ UNCHANGED threadResult
               ELSE /\ samples' = <<>>
                    /\ samplePc' = "return"
                    /\ threadResult' = "Err"
    /\ UNCHANGED <<mainPc, data_chan, exit_chan, capture_len, rxAfterExit>>

\* lines 43-45, data_tx.send(samples).expect(..)
sample_send ==
    /\ ProcessAlive
    /\ samplePc = "send"
    /\ IF DataRxAlive
       THEN /\ data_chan' = Append(data_chan, samples)
            /\ samplePc' = "try_recv"
            /\ UNCHANGED threadResult
       ELSE /\ samplePc' = "return"
            /\ threadResult' = "panic"
            /\ UNCHANGED data_chan
    /\ samples' = <<>>
    /\ UNCHANGED <<mode, dh, interface, desc, timeout, call, res, xfers, lastModeCmd, cycles>>
    /\ UNCHANGED <<mainPc, exit_chan, capture_len, rxAfterExit>>

\* the exit event taken off the channel and the loop carried on regardless
sample_try_recv_ignores_exit ==
    /\ ProcessAlive
    /\ samplePc = "try_recv"
    /\ IF exit_chan # <<>>
       THEN /\ exit_chan' = Tail(exit_chan)
            /\ samplePc' = "rx"
            /\ UNCHANGED threadResult
       ELSE IF ~ExitTxAlive
       THEN /\ samplePc' = "return"
            /\ threadResult' = "Ok"
            /\ UNCHANGED exit_chan
       ELSE /\ samplePc' = "rx"
            /\ UNCHANGED <<exit_chan, threadResult>>
    /\ UNCHANGED <<mode, dh, interface, desc, timeout, call, res, xfers, lastModeCmd, cycles>>
    /\ UNCHANGED <<mainPc, samples, data_chan, capture_len, rxAfterExit>>

\* lines 47-57, match exit_rx.try_recv()
sample_try_recv ==
    /\ ProcessAlive
    /\ samplePc = "try_recv"
    /\ IF exit_chan # <<>>
       THEN /\ exit_chan' = Tail(exit_chan)
            /\ samplePc' = "stop_rx"
            /\ UNCHANGED threadResult
       ELSE IF ~ExitTxAlive
       THEN /\ samplePc' = "return"
            /\ threadResult' = "Ok"
            /\ UNCHANGED exit_chan
       ELSE /\ samplePc' = "rx"
            /\ UNCHANGED <<exit_chan, threadResult>>
    /\ UNCHANGED <<mode, dh, interface, desc, timeout, call, res, xfers, lastModeCmd, cycles>>
    /\ UNCHANGED <<mainPc, samples, data_chan, capture_len, rxAfterExit>>

\* lines 49-50, radio.stop_rx()?; return Ok(())
sample_stop_rx ==
    /\ ProcessAlive
    /\ samplePc = "stop_rx"
    /\ mode = RxMode
    /\ \E out \in BOOLEAN :
        LET c == set_transceiver_mode(Off, timeout, out)
        IN  /\ Consumed(c.r, UnknownMode)
            /\ cycles' = IF c.r.kind = "Ok" /\ cycles < MaxCycles THEN cycles + 1 ELSE cycles
            /\ Recorded("stop_rx", <<>>, c.r, c.xs)
            /\ threadResult' = IF c.r.kind = "Ok" THEN "Ok" ELSE "Err"
    /\ samplePc' = "return"
    /\ UNCHANGED <<mainPc, samples, data_chan, exit_chan, capture_len, rxAfterExit>>

\* the closure returns: the first of data_tx and exit_rx is dropped
sample_return ==
    /\ ProcessAlive
    /\ samplePc = "return"
    /\ samplePc' \in {"dropped_data_tx", "dropped_exit_rx"}
    /\ UNCHANGED <<mode, dh, interface, desc, timeout, call, res, xfers, lastModeCmd, cycles>>
    /\ UNCHANGED <<mainPc, samples, data_chan, exit_chan, capture_len, threadResult, rxAfterExit>>

\* the rest of the closure is dropped, the radio with it: the thread has ended
sample_exit ==
    /\ ProcessAlive
    /\ samplePc \in {"dropped_data_tx", "dropped_exit_rx"}
    /\ samplePc' = "done"
    /\ mode' = NoSession
    /\ dh' = 0
    /\ interface' = <<0, 0>>
    /\ desc' = 0
    /\ timeout' = 0
    /\ UNCHANGED <<call, res, xfers, lastModeCmd, cycles>>
    /\ UNCHANGED <<mainPc, samples, data_chan, exit_chan, capture_len, threadResult, rxAfterExit>>

\* lines 66-75, match data_rx.try_recv(): a buffer's IQ pairs go to
\* capture_buf; Disconnected (nothing waiting and data_tx dropped) breaks
main_try_recv ==
    /\ mainPc = "try_recv"
    /\ IF data_chan # <<>>
       THEN /\ capture_len' = capture_len + (Len(Head(data_chan)) \div 2)
            /\ data_chan' = Tail(data_chan)
            /\ mainPc' = "check_full"
       ELSE IF ~DataTxAlive
       THEN /\ mainPc' = "send_exit"
            /\ UNCHANGED <<capture_len, data_chan>>
       ELSE /\ mainPc' = "check_full"
            /\ UNCHANGED <<capture_len, data_chan>>
    /\ UNCHANGED <<mode, dh, interface, desc, timeout, call, res, xfers, lastModeCmd, cycles>>
    /\ UNCHANGED <<samplePc, samples, exit_chan, threadResult, rxAfterExit>>

\* lines 80-82, if capture_buf.len() >= NUM_SAMPLES { break }
main_check_full ==
    /\ mainPc = "check_full"
    /\ mainPc' = IF capture_len >= MaxSamples THEN "send_exit" ELSE "try_recv"
    /\ UNCHANGED <<mode, dh, interface, desc, timeout, call, res, xfers, lastModeCmd, cycles>>
    /\ UNCHANGED <<samplePc, samples, data_chan, exit_chan, capture_len, threadResult, rxAfterExit>>

\* lines 87-89, exit_tx.send(()).expect(..): fails when exit_rx is gone
main_send_exit ==
    /\ mainPc = "send_exit"
    /\ IF ExitRxAlive
       THEN /\ exit_chan' = Append(exit_chan, "exit")
            /\ mainPc' = "join"
       ELSE /\ mainPc' = "panic_send_exit"
            /\ UNCHANGED exit_chan
    /\ UNCHANGED <<mode, dh, interface, desc, timeout, call, res, xfers, lastModeCmd, cycles>>
    /\ UNCHANGED <<samplePc, samples, data_chan, capture_len, threadResult, rxAfterExit>>

\* lines 90-95, join().expect(..).expect(..): waits for the thread to end
main_join ==
    /\ mainPc = "join"
    /\ samplePc = "done"
    /\ mainPc' = IF threadResult = "Ok" THEN "done" ELSE "panic_join"
    /\ UNCHANGED <<mode, dh, interface, desc, timeout, call, res, xfers, lastModeCmd, cycles>>
    /\ UNCHANGED <<samplePc, samples, data_chan, exit_chan, capture_len, threadResult, rxAfterExit>>

SampleThread ==
    \/ sample_rx_start
    \/ sample_rx_return
    \/ sample_send
    \/ sample_try_recv
    \/ sample_stop_rx
    \/ sample_return
    \/ sample_exit

MainThread ==
    \/ main_try_recv
    \/ main_check_full
    \/ main_send_exit
    \/ main_join

NextExample ==
    \/ SampleThread
    \/ MainThread

SpecExample == InitExample /\ [][NextExample]_vars

\* the sample thread is scheduled, and the transfer it waits for in rx() ends
SpecExampleFair == SpecExample /\ WF_vars(SampleThread)

----------------------------------------------------------------------------
(* Properties *)

TransitionOps == {"into_rx_mode", "stop_rx", "reset"}

\* the configuration setters and identification reads, each with the
\* requests it may put on the wire
OpRequests ==
    [set_freq |-> {SetFreq},
     set_sample_rate |-> {SampleRateSet, BasebandFilterBandwidthSet},
     set_baseband_filter_bandwidth |-> {BasebandFilterBandwidthSet},
     set_amp_enable |-> {AmpEnable},
     set_antenna_enable |-> {AntennaEnable},
     set_lna_gain |-> {SetLnaGain},
     set_vga_gain |-> {SetVgaGain},
     set_txvga_gain |-> {SetTxvgaGain},
     set_clkout_enable |-> {ClkoutEnable},
     board_id |-> {BoardIdRead},
     version |-> {VersionStringRead}]

ConfigOps == DOMAIN OpRequests

ConfigRequests == UNION {OpRequests[op] : op \in ConfigOps}

IsControl(x) == x.kind \in {"control_in", "control_out"}

V(major, minor, sub_minor) == [major |-> major, minor |-> minor, sub_minor |-> sub_minor]

\* lexicographic order on (major, minor, sub_minor)
LexLess(v, w) ==
    \/ v.major < w.major
    \/ v.major = w.major /\ v.minor < w.minor
    \/ v.major = w.major /\ v.minor = w.minor /\ v.sub_minor < w.sub_minor

\* the composite ordering key as a number
Key(v) == v.major * 65536 + v.minor * 256 + v.sub_minor

\* C1: a session tagged RxMode exists only while the last mode-affecting
\* command the device accepted on the connection is SetTransceiverMode =
\* Receive; so every bulk-in transfer of rx() comes after a successful
\* "begin receive" with no stop_rx or reset in between, and rx() is never
\* called on a session tagged UnknownMode.
C1_RxTagMeansReceiveSent ==
    /\ mode = RxMode => lastModeCmd = "Receive"
    /\ call.op = "rx" => call.from = RxMode /\ lastModeCmd = "Receive"
    /\ \A i \in 1..Len(xfers) :
        xfers[i].kind = "bulk_in" => call.op = "rx" /\ lastModeCmd = "Receive"

\* a bulk read on a session that was stopped and put into receive again
C1_Witness ==
    /\ call.op = "rx"
    /\ res.kind = "Ok"
    /\ Len(xfers) = 1
    /\ xfers[1].kind = "bulk_in"
    /\ cycles >= 1

\* C2 as stated: no configuration or identification request is issued from a
\* session tagged RxMode.
C2_NoConfigInRxMode ==
    \A i \in 1..Len(xfers) :
        IsControl(xfers[i]) /\ xfers[i].request \in ConfigRequests => call.from # RxMode

\* C2: the configuration setters and identification reads are defined for
\* every mode tag, so a session tagged RxMode can call them too; such a call
\* borrows the session: the tag stays what it was and only the call's own
\* requests go on the wire, never SetTransceiverMode or Reset.
C2_ConfigKeepsTag ==
    call.op \in ConfigOps =>
        /\ call.from \in {UnknownMode, RxMode}
        /\ mode = call.from
        /\ \A i \in 1..Len(xfers) :
            IsControl(xfers[i]) /\ xfers[i].request \in OpRequests[call.op]

\* a bandwidth set that went through on a session tagged RxMode
C2_Witness ==
    /\ call.op = "set_baseband_filter_bandwidth"
    /\ call.from = RxMode
    /\ res.kind = "Ok"
    /\ mode = RxMode

\* C3 as stated: into_rx_mode is only ever called on a session tagged
\* UnknownMode, so SetTransceiverMode = Receive is never issued from RxMode.
C3_IntoRxOnlyFromUnknown ==
    \A i \in 1..Len(xfers) :
        (/\ xfers[i].kind = "control_out"
         /\ xfers[i].request = SetTransceiverMode
         /\ xfers[i].value = Receive) => call.from = UnknownMode

\* C3: into_rx_mode is callable on a session of either tag; it issues exactly
\* one SetTransceiverMode control-out with value Receive (1), index 0 and no
\* payload, and on success returns a session tagged RxMode; called on a
\* session already tagged RxMode it sends the command again.
C3_IntoRxSendsReceive ==
    call.op = "into_rx_mode" =>
        /\ call.from \in {UnknownMode, RxMode}
        /\ Len(xfers) = 1
        /\ xfers[1].kind = "control_out"
        /\ xfers[1].request = SetTransceiverMode
        /\ xfers[1].value = Receive
        /\ xfers[1].index = 0
        /\ xfers[1].data = <<>>
        /\ res.kind = "Ok" => mode = RxMode

\* into_rx_mode succeeding on a session already tagged RxMode
C3_Witness ==
    /\ call.op = "into_rx_mode"
    /\ call.from = RxMode
    /\ res.kind = "Ok"
    /\ mode = RxMode

\* C4 as stated: Reset is never issued from a session tagged RxMode, so the
\* tag goes from RxMode to UnknownMode by stop_rx only.
C4_ResetOnlyFromUnknown ==
    /\ call.op = "reset" => call.from = UnknownMode
    /\ call.from = RxMode /\ mode = UnknownMode => call.op = "stop_rx"

\* C4: reset is callable on a session of either tag; the tag goes from
\* RxMode to UnknownMode by a successful stop_rx or a successful reset and by
\* nothing else, and a successful reset returns a session tagged UnknownMode.
C4_ResetReturnsUnknown ==
    /\ call.op = "reset" /\ res.kind = "Ok" => mode = UnknownMode
    /\ call.op = "reset" => call.from \in {UnknownMode, RxMode}
    /\ call.from = RxMode /\ mode = UnknownMode =>
        call.op \in {"stop_rx", "reset"} /\ res.kind = "Ok"

\* a reset that went through on a session tagged RxMode
C4_Witness ==
    /\ call.op = "reset"
    /\ call.from = RxMode
    /\ res.kind = "Ok"
    /\ mode = UnknownMode
    /\ Len(xfers) = 1
    /\ xfers[1].request = Reset

\* C5: stop_rx is called on a session tagged RxMode only; it issues exactly
\* one SetTransceiverMode control-out with value Off (0) and on success
\* returns a session tagged UnknownMode; SetTransceiverMode = Off is never
\* issued from a session tagged UnknownMode.  (That the round trip can be
\* repeated is what the witness reaches.)
C5_StopRxSendsOff ==
    /\ call.op = "stop_rx" =>
        /\ call.from = RxMode
        /\ Len(xfers) = 1
        /\ xfers[1].kind = "control_out"
        /\ xfers[1].request = SetTransceiverMode
        /\ xfers[1].value = Off
        /\ xfers[1].index = 0
        /\ xfers[1].data = <<>>
        /\ res.kind = "Ok" => mode = UnknownMode
    /\ \A i \in 1..Len(xfers) :
        (/\ xfers[i].kind = "control_out"
         /\ xfers[i].request = SetTransceiverMode
         /\ xfers[i].value = Off) => call.from = RxMode

\* the round trip UnknownMode -> RxMode -> UnknownMode done MaxCycles times
\* on one connection
C5_Witness ==
    /\ call.op = "stop_rx"
    /\ res.kind = "Ok"
    /\ mode = UnknownMode
    /\ cycles = MaxCycles

\* C6: a successful mode transition (into_rx_mode, stop_rx, reset) returns a
\* session with the device handle, interface, descriptor and timeout of the
\* session it consumed; a timeout set before the transition is still there.
C6_TransitionKeepsFields ==
    [][(call'.op \in TransitionOps /\ res'.kind = "Ok") => session' = session]_vars

\* a transition that went through on the second device with a timeout that
\* is not the default
C6_Witness ==
    /\ call.op = "stop_rx"
    /\ res.kind = "Ok"
    /\ mode = UnknownMode
    /\ dh = 2
    /\ timeout = 100

\* C7: a transition whose command fails (or, for reset, whose version gate
\* refuses) returns an error and leaves no session of either tag; with no
\* session nothing but new() can be called.
C7_FailedTransitionLosesSession ==
    [][/\ (call'.op \in TransitionOps /\ res'.kind # "Ok") =>
            IsErr(res') /\ mode' = NoSession
       /\ mode = NoSession => call'.op = "new" /\ xfers' = <<>>]_vars

\* a stop_rx whose command failed
C7_Witness ==
    /\ call.op = "stop_rx"
    /\ call.from = RxMode
    /\ res.kind = "UsbTransfer"
    /\ mode = NoSession

\* C8 as stated: set_clkout_enable fails with the Version error for every
\* device version below 1.3.0, reset for every device version below 1.2.0.
C8_GateAt_1_3_0_And_1_2_0 ==
    /\ (call.op = "set_clkout_enable" /\ LexLess(from_bcd(call.desc), V(1, 3, 0)))
            => res.kind = "Version"
    /\ (call.op = "reset" /\ LexLess(from_bcd(call.desc), V(1, 2, 0)))
            => res.kind = "Version"

\* C8: set_clkout_enable is accepted only when the decoded device version is
\* at least 1.0.3 (the decoding of 0x0103) and reset only when it is at least
\* 1.0.2 (0x0102); for every device version below the respective minimum
\* (1.0.2 for clock-out, 1.0.1 for reset) the call fails with the Version
\* error, and for no other.
C8_GateAt_1_0_3_And_1_0_2 ==
    /\ call.op = "set_clkout_enable" =>
        (res.kind = "Version" <=> LexLess(from_bcd(call.desc), V(1, 0, 3)))
    /\ call.op = "reset" =>
        (res.kind = "Version" <=> LexLess(from_bcd(call.desc), V(1, 0, 2)))

\* a reset accepted on a device whose version is exactly the minimum
C8_Witness ==
    /\ call.op = "reset"
    /\ from_bcd(call.desc) = V(1, 0, 2)
    /\ res.kind = "Ok"

\* C9: a Version error comes from set_clkout_enable or reset only, carries
\* the decoded device version and the minimum the call asked for, and no
\* transfer was issued by the call.
C9_VersionErrorShortCircuits ==
    res.kind = "Version" =>
        /\ call.op \in {"set_clkout_enable", "reset"}
        /\ res.device = from_bcd(call.desc)
        /\ res.min = (IF call.op = "reset" THEN V(1, 0, 2) ELSE V(1, 0, 3))
        /\ xfers = <<>>

\* set_clkout_enable refused on a 1.0.2 device
C9_Witness ==
    /\ call.op = "set_clkout_enable"
    /\ res.kind = "Version"
    /\ res.device = V(1, 0, 2)
    /\ res.min = V(1, 0, 3)

GateDevice == from_bcd(call.desc)

GateMin == V(call.arg[1], call.arg[2], call.arg[3])

\* C10: check_api_version(min) succeeds exactly when the composite key of
\* the device version is at least that of min, which is the lexicographic
\* order on (major, minor, sub_minor); the boundary is inclusive: 1.2.0
\* against 1.2.0 succeeds, 1.1.9 against 1.2.0 fails with the Version error.
C10_GateIsLexicographic ==
    (call.op = "check_api_version" /\ res.kind # "None") =>
        /\ res.kind \in {"Ok", "Version"}
        /\ res.kind = "Ok" <=> Key(GateDevice) >= Key(GateMin)
        /\ res.kind = "Ok" <=> ~LexLess(GateDevice, GateMin)
        /\ (GateDevice = V(1, 2, 0) /\ GateMin = V(1, 2, 0)) => res.kind = "Ok"
        /\ (GateDevice = V(1, 1, 9) /\ GateMin = V(1, 2, 0)) =>
            res = ErrVersion(V(1, 1, 9), V(1, 2, 0))

\* the gate passed with the device version equal to the minimum
C10_Witness ==
    /\ call.op = "check_api_version"
    /\ GateDevice = V(1, 2, 0)
    /\ GateMin = V(1, 2, 0)
    /\ res.kind = "Ok"


\* C11: for every 16-bit raw value from_bcd gives major = 10 * (bits 12-15)
\* + (bits 8-11), minor = bits 4-7, sub_minor = bits 0-3; it always returns a
\* Version and major, at most 165, does not overflow a u8; 0x1234 is 12.3.4,
\* 0x4321 is 43.2.1, 0x0200 is 2.0.0, 0x0110 is 1.1.0.
C11_FromBcdDecodes ==
    (call.op = "from_bcd" /\ res.kind # "None") =>
        LET raw == call.arg[1]
        IN  /\ res.kind = "Ok"
            /\ res.val = <<10 * ((raw \div 4096) % 16) + ((raw \div 256) % 16),
                           (raw \div 16) % 16,
                           raw % 16>>
            /\ res.val[1] <= 165
            /\ raw = 4660 => res.val = <<12, 3, 4>>
            /\ raw = 17185 => res.val = <<43, 2, 1>>
            /\ raw = 512 => res.val = <<2, 0, 0>>
            /\ raw = 272 => res.val = <<1, 1, 0>>

\* 0xFFFF decoded: the largest major there is
C11_Witness ==
    /\ call.op = "from_bcd"
    /\ call.arg = <<65535>>
    /\ res.val = <<165, 15, 15>>


\* x + y on Len(x) digits
RECURSIVE BigAdd(_, _, _, _)
BigAdd(x, y, i, carry) ==
    IF i > Len(x) THEN <<>>
    ELSE LET cur == x[i] + y[i] + carry
         IN  <<cur % 256>> \o BigAdd(x, y, i + 1, cur \div 256)

\* x < y for two values of the same number of digits
BigLess(x, y) ==
    \E i \in 1..Len(x) : x[i] < y[i] /\ \A j \in (i + 1)..Len(x) : x[j] = y[j]

\* 2^32 * 1_000_000 = 0x000F_4240_0000_0000: from here on the MHz part saturates
MhzSaturates == <<0, 0, 0, 0, 64, 66, 15, 0>>

\* C12: freq_params(hz) is 8 bytes; bytes 0-3 are min(hz div 1_000_000,
\* 2^32-1) little-endian, bytes 4-7 the residual saturated to 2^32-1; while
\* the MHz part does not saturate, hz = mhz * 1_000_000 + residual with
\* residual < 1_000_000; the subtraction never underflows; 0 gives eight
\* zeros and u64::MAX eight 0xFF.
C12_FreqParamsSaturate ==
    (call.op = "freq_params" /\ res.kind # "None") =>
        /\ res.kind = "Ok"
        /\ Len(res.val) = 8
        /\ LET hz == call.arg
               mhz == SubSeq(res.val, 1, 4) \o <<0, 0, 0, 0>>
               rest == SubSeq(res.val, 5, 8) \o <<0, 0, 0, 0>>
               top == BigMul(U32_MAX \o <<0, 0, 0, 0>>, 1000000, 1, 0)
               left == BigSub(hz, top, 1, 0)
           IN  /\ \A i \in 1..8 : res.val[i] \in 0..255
               /\ IF BigLess(hz, MhzSaturates)
                  THEN /\ BigAdd(BigMul(mhz, 1000000, 1, 0), rest, 1, 0) = hz
                       /\ BigLess(rest, U64(1000000))
                  ELSE /\ SubSeq(res.val, 1, 4) = U32_MAX
                       /\ left.borrow = 0
                       /\ SubSeq(res.val, 5, 8) =
                            IF SubSeq(left.digits, 5, 8) = <<0, 0, 0, 0>>
                            THEN SubSeq(left.digits, 1, 4) ELSE U32_MAX
               /\ hz = U64(0) => res.val = <<0, 0, 0, 0, 0, 0, 0, 0>>
               /\ hz = U64_MAX => res.val = <<255, 255, 255, 255, 255, 255, 255, 255>>
               /\ hz = U64(915000000) => res.val = <<147, 3, 0, 0, 0, 0, 0, 0>>
               /\ hz = U64(123456789) => res.val = <<123, 0, 0, 0, 85, 248, 6, 0>>
               /\ hz = MhzSaturates => res.val = <<255, 255, 255, 255, 64, 66, 15, 0>>

\* u64::MAX encoded: both halves saturated
C12_Witness ==
    /\ call.op = "freq_params"
    /\ call.arg = U64_MAX
    /\ res.kind = "Ok"
    /\ res.val = <<255, 255, 255, 255, 255, 255, 255, 255>>


GainOps == {"set_lna_gain", "set_vga_gain", "set_txvga_gain"}

GainMax(op) == IF op = "set_lna_gain" THEN 40 ELSE IF op = "set_vga_gain" THEN 62 ELSE 47

GainStep(op) == IF op = "set_lna_gain" THEN 8 ELSE IF op = "set_vga_gain" THEN 2 ELSE 1

GainRequest(op) ==
    IF op = "set_lna_gain" THEN SetLnaGain
    ELSE IF op = "set_vga_gain" THEN SetVgaGain ELSE SetTxvgaGain

\* the one transfer of the call came back with exactly one byte
OneStatusByte == Len(xfers) = 1 /\ xfers[1].ok /\ Len(xfers[1].got) = 1

\* C13: a gain above the maximum (40 LNA, 62 VGA, 47 TX-VGA) gives
\* Error::Argument and no transfer; a gain up to and including the maximum
\* issues exactly one request, the setter's own, and once a status byte came
\* back the outcome is Ok or Error::Argument whatever the gain was.
C13_GainBounds ==
    call.op \in GainOps =>
        LET gain == call.arg[1]
        IN  IF gain > GainMax(call.op)
            THEN res = ErrArgument /\ xfers = <<>>
            ELSE /\ Len(xfers) = 1
                 /\ xfers[1].kind = "control_in"
                 /\ xfers[1].request = GainRequest(call.op)
                 /\ OneStatusByte => res \in {Ok, ErrArgument}
                 /\ OneStatusByte /\ xfers[1].got = <<255>> => res = Ok

\* the VGA gain at its maximum, accepted by the device
C13_Witness ==
    /\ call.op = "set_vga_gain"
    /\ call.arg = <<62>>
    /\ Len(xfers) = 1
    /\ xfers[1].got = <<1>>
    /\ res = Ok

\* C14: for a gain in range the index field carries the gain with its low 3
\* bits cleared (LNA), its low bit cleared (VGA) or unchanged (TX-VGA): a
\* multiple of the step, never above the maximum; with a single status byte
\* back the call fails with Error::Argument iff the byte is 0 and is Ok for
\* any other byte.
C14_GainIndexAndStatus ==
    (call.op \in GainOps /\ call.arg[1] <= GainMax(call.op)) =>
        LET gain == call.arg[1]
            step == GainStep(call.op)
        IN  /\ Len(xfers) = 1
            /\ xfers[1].index = gain - (gain % step)
            /\ xfers[1].index % step = 0
            /\ xfers[1].index <= GainMax(call.op)
            /\ xfers[1].value = 0
            /\ OneStatusByte => (res = ErrArgument <=> xfers[1].got[1] = 0)
            /\ OneStatusByte => (res = Ok <=> xfers[1].got[1] # 0)

\* LNA gain 39 goes out as 32 and the device refuses it
C14_Witness ==
    /\ call.op = "set_lna_gain"
    /\ call.arg = <<39>>
    /\ Len(xfers) = 1
    /\ xfers[1].index = 32
    /\ xfers[1].got = <<0>>
    /\ res = ErrArgument


\* the value of a u32 below 2^31 given by its digits
U32Value(x) == x[1] + 256 * x[2] + 65536 * x[3] + 16777216 * x[4]

\* C15: a successful set_sample_rate(hz, div) with div > 0 issues
\* BasebandFilterBandwidthSet for bw = floor(0.75 * hz / div), value = low 16
\* bits of bw, index = bits 16-31 of bw, no payload.
C15_BandwidthIsFloor ==
    (call.op = "set_sample_rate" /\ res = Ok /\ U32Value(SubSeq(call.arg, 5, 8)) > 0) =>
        LET hz == U32Value(SubSeq(call.arg, 1, 4))
            div == U32Value(SubSeq(call.arg, 5, 8))
            bw == (3 * hz) \div (4 * div)
        IN  /\ Len(xfers) = 2
            /\ xfers[2].kind = "control_out"
            /\ xfers[2].request = BasebandFilterBandwidthSet
            /\ xfers[2].value = bw % 65536
            /\ xfers[2].index = bw \div 65536
            /\ xfers[2].data = <<>>


\* C16: read_control::<N> is Ok with the N bytes only when the control-in
\* came back with exactly N bytes; any other length, shorter or longer, is
\* Error::CtrlTransfer {dir: In, actual: the length, expected: N}; so
\* board_id and the gain setters fail with it on an answer that is not 1 byte.
C16_ReadControlExactLength ==
    (/\ call.op \in {"board_id"} \cup GainOps
     /\ Len(xfers) = 1
     /\ xfers[1].ok) =>
        LET got == xfers[1].got
            N == xfers[1].length
        IN  /\ N = 1
            /\ IF Len(got) = N
               THEN /\ res.kind \in {"Ok", "Argument"}
                    /\ call.op = "board_id" => res = OkVal(got)
               ELSE res = ErrCtrlTransfer("In", Len(got), N)

\* board_id answered with two bytes
C16_Witness ==
    /\ call.op = "board_id"
    /\ Len(xfers) = 1
    /\ xfers[1].ok
    /\ Len(xfers[1].got) = 2
    /\ res = ErrCtrlTransfer("In", 2, 1)

\* C17: no operation panics, whatever the device answers and whatever the
\* arguments are: every call returns Ok or one of the errors; version() on an
\* answer shorter than 16 bytes and set_sample_rate with div = 0 included.
C17_NoPanic == res.kind # "Panic"

\* C18: the session timeout, 1 second after new() and then the value of the
\* latest set_timeout, is the timeout of every transfer issued afterwards:
\* control-in, control-out and the bulk-in of rx(), under both tags.
C18_TimeoutOnEveryTransfer ==
    /\ (call.op = "new" /\ res.kind = "Some") => timeout = DefaultTimeout
    /\ (call.op = "set_timeout" /\ Alive) => timeout = call.arg[1]
    /\ Alive => \A i \in 1..Len(xfers) : xfers[i].timeout = timeout

\* C19: nothing is retried: within one call no transfer is issued twice, and
\* a failed transfer is the last one of its call, which returns the error.
C19_NoRetry ==
    /\ \A i \in 1..Len(xfers) : \A j \in 1..Len(xfers) :
        i # j => xfers[i].request # xfers[j].request
    /\ \A i \in 1..Len(xfers) : ~xfers[i].ok =>
        /\ i = Len(xfers)
        /\ res = IF xfers[i].kind = "bulk_in" THEN ErrIO ELSE ErrUsbTransfer

\* set_sample_rate stopped at its first transfer, which failed
C19_Witness ==
    /\ call.op = "set_sample_rate"
    /\ Len(xfers) = 1
    /\ ~xfers[1].ok
    /\ res = ErrUsbTransfer

\* C20 as stated: each rx() call performs exactly one bulk-in transfer.
C20_RxAlwaysOneTransfer ==
    call.op = "rx" => Len(xfers) = 1

\* C20: each rx() call performs at most one bulk-in transfer: none when the
\* endpoint cannot be opened (Error::Usb), otherwise exactly one, on endpoint
\* 0x81 for at most 131072 bytes; when it completes, the call is Ok with
\* exactly the bytes transferred, in order, however few; nothing is carried
\* over from an earlier call.
C20_RxOneBulkRead ==
    call.op = "rx" =>
        /\ Len(xfers) <= 1
        /\ Len(xfers) = 0 <=> res = ErrUsb
        /\ Len(xfers) = 1 =>
            /\ xfers[1].kind = "bulk_in"
            /\ xfers[1].request = 129
            /\ xfers[1].length <= 131072
            /\ xfers[1].ok => res = OkVal(xfers[1].got)
            /\ ~xfers[1].ok => res = ErrIO

\* a short read of one byte, handed back as it came
C20_Witness ==
    /\ call.op = "rx"
    /\ Len(xfers) = 1
    /\ xfers[1].ok
    /\ Len(xfers[1].got) = 1
    /\ res = OkVal(xfers[1].got)


\* a byte read as a signed number: b below 128, b - 256 from 128 on
SignedByte(b) == IF b < 128 THEN b ELSE b - 256

\* the f32 f (a sign and a magnitude m * 2^e) is exactly the integer n
F32IsInteger(f, n) ==
    /\ f.abs.cls = "num"
    /\ f.neg <=> n < 0
    /\ LET a == IF n < 0 THEN 0 - n ELSE n
       IN  IF f.abs.e >= 0 THEN f.abs.m * Pow2(f.abs.e) = a
           ELSE f.abs.m = a * Pow2(0 - f.abs.e)

\* C21: for every byte pair (i, q), iq_to_cplx_i8(i, q) has the signed
\* readings of i and q (b if b < 128, else b - 256) as real and imaginary
\* part, and iq_to_cplx_f32 has the same two values as floats; (255, 1)
\* decodes to (-1, 1).
C21_IqDecodesSigned ==
    (call.op \in {"iq_to_cplx_i8", "iq_to_cplx_f32"} /\ res.kind # "None") =>
        LET i == call.arg[1]
            q == call.arg[2]
        IN  /\ res.kind = "Ok"
            /\ call.op = "iq_to_cplx_i8" =>
                /\ res.val = <<SignedByte(i), SignedByte(q)>>
                /\ res.val[1] \in -128..127 /\ res.val[2] \in -128..127
                /\ (i = 255 /\ q = 1) => res.val = <<-1, 1>>
            /\ call.op = "iq_to_cplx_f32" =>
                /\ F32IsInteger(res.val[1], SignedByte(i))
                /\ F32IsInteger(res.val[2], SignedByte(q))
                /\ (i = 255 /\ q = 1) =>
                    /\ F32IsInteger(res.val[1], -1)
                    /\ F32IsInteger(res.val[2], 1)

\* (128, 127) decoded as integers: the two ends of the range
C21_Witness ==
    /\ call.op = "iq_to_cplx_i8"
    /\ call.arg = <<128, 127>>
    /\ res.kind = "Ok"
    /\ res.val = <<-128, 127>>


\* a bandwidth command that reached the device
IsBandwidthCmd(x) ==
    x.kind = "control_out" /\ x.ok /\ x.request = BasebandFilterBandwidthSet

\* C22: a successful set_sample_rate issues exactly two control-outs, first
\* SampleRateSet (value 0, index 0, payload hz then div, each little-endian),
\* then BasebandFilterBandwidthSet; when SampleRateSet fails no bandwidth
\* command follows.  A bandwidth command reaches the device only as the last
\* transfer of a successful set_sample_rate or
\* set_baseband_filter_bandwidth, and each such call ends with one: the last
\* bandwidth command on the wire is that of the last successful call of the two.
C22_SampleRateThenBandwidth ==
    /\ (call.op = "set_sample_rate" /\ res = Ok) =>
        /\ Len(xfers) = 2
        /\ xfers[1].kind = "control_out" /\ xfers[1].ok
        /\ xfers[1].request = SampleRateSet
        /\ xfers[1].value = 0 /\ xfers[1].index = 0
        /\ xfers[1].data = call.arg /\ Len(xfers[1].data) = 8
        /\ call.arg = U32(20000000) \o U32(2) =>
            xfers[1].data = <<0, 45, 49, 1, 2, 0, 0, 0>>
        /\ IsBandwidthCmd(xfers[2])
    /\ (call.op = "set_sample_rate" /\ Len(xfers) >= 1 /\ ~xfers[1].ok) =>
        /\ Len(xfers) = 1
        /\ xfers[1].request = SampleRateSet
        /\ IsErr(res)
    /\ (call.op = "set_baseband_filter_bandwidth" /\ res = Ok) =>
        /\ Len(xfers) = 1
        /\ IsBandwidthCmd(xfers[1])
        /\ xfers[1].value = call.arg[1] + 256 * call.arg[2]
        /\ xfers[1].index = call.arg[3] + 256 * call.arg[4]
    /\ \A i \in 1..Len(xfers) : IsBandwidthCmd(xfers[i]) =>
        /\ call.op \in {"set_sample_rate", "set_baseband_filter_bandwidth"}
        /\ res = Ok
        /\ i = Len(xfers)

\* set_sample_rate(20_000_000, 2) gone through: SampleRateSet, then 7_500_000
\* (0x0072_70E0) as the bandwidth
C22_Witness ==
    /\ call.op = "set_sample_rate"
    /\ call.arg = U32(20000000) \o U32(2)
    /\ res = Ok
    /\ Len(xfers) = 2
    /\ xfers[1].request = SampleRateSet
    /\ xfers[2].request = BasebandFilterBandwidthSet
    /\ xfers[2].value = 28896
    /\ xfers[2].index = 114


\* the version a bcdDevice value stands for
BcdVersion(d) ==
    V(10 * ((d \div 4096) % 16) + ((d \div 256) % 16), (d \div 16) % 16, d % 16)

\* C25: device_version() is read off the descriptor cached when the session
\* was opened and issues no transfer; no setter, mode transition or reset
\* changes that descriptor while the session lives, so device_version()
\* always returns what it returned right after new(), and every version
\* gate (reset, set_clkout_enable), also after a successful reset, decides
\* on that same value.
C25_DeviceVersionIsCached ==
    [][/\ (Alive /\ Alive') => desc' = desc
       /\ call'.op = "device_version" =>
           /\ xfers' = <<>>
           /\ res' = OkVal(<<BcdVersion(desc).major, BcdVersion(desc).minor,
                             BcdVersion(desc).sub_minor>>)
       /\ (call'.op \in {"reset", "set_clkout_enable"} /\ res'.kind = "Version") =>
           /\ res'.device = BcdVersion(desc)
           /\ xfers' = <<>>
       /\ call'.op = "reset" =>
           (res'.kind = "Version" <=> LexLess(BcdVersion(desc), V(1, 0, 2)))
       /\ call'.op = "set_clkout_enable" =>
           (res'.kind = "Version" <=> LexLess(BcdVersion(desc), V(1, 0, 3)))]_vars

\* device_version() on a session in its second receive round, after a
\* stop_rx: still the 1.0.3 of the descriptor
C25_Witness ==
    /\ call.op = "device_version"
    /\ cycles >= 1
    /\ mode = RxMode
    /\ desc = 259
    /\ xfers = <<>>
    /\ res = OkVal(<<1, 0, 3>>)


\* the exit event has been sent
ExitSent == mainPc = "join"

\* C23: in examples/rx.rs the sample thread reads the exit channel only
\* between rx() calls and a transfer in flight ends only by rx() returning;
\* once the main thread has sent the exit event the sample thread starts at
\* most one more rx(), and, unless an rx() fails, it then issues stop_rx
\* (SetTransceiverMode = Off) and ends.
C23_CooperativeCancel ==
    /\ [](rxAfterExit <= 1)
    /\ [][Len(exit_chan') < Len(exit_chan) => samplePc = "try_recv"]_vars
    /\ [][(samplePc = "in_rx" /\ samplePc' # "in_rx") =>
            /\ call'.op = "rx"
            /\ samplePc' = IF res'.kind = "Ok" THEN "send" ELSE "return"]_vars
    /\ [](call.op = "stop_rx" =>
            /\ Len(xfers) = 1
            /\ xfers[1].request = SetTransceiverMode
            /\ xfers[1].value = Off)
    /\ ExitSent ~>
        (/\ samplePc = "done"
         /\ \/ call.op = "stop_rx"
            \/ call.op = "rx" /\ IsErr(res))

\* the thread ended by stop_rx after one rx() started with the exit event waiting
C23_Witness ==
    /\ mainPc = "join"
    /\ samplePc = "done"
    /\ rxAfterExit = 1
    /\ call.op = "stop_rx"
    /\ res = Ok
    /\ lastModeCmd = "Off"

\* C24: in examples/rx.rs, whatever the interleaving and whatever rx()
\* returns, when the main thread has left its loop the sample thread still
\* holds exit_rx, so exit_tx.send(()) succeeds, the join yields Ok and the
\* program reaches "Done" without panicking.
C24_ShutdownNeverPanics ==
    /\ mainPc = "send_exit" => ExitRxAlive
    /\ mainPc \notin {"panic_send_exit", "panic_join"}

====
